---- MODULE Spec2Model ----
(***************************************************************************)
(* Model of src/master.py: the MIDI recorder.                              *)
(*                                                                         *)
(*   encode_var_len(n)            the VLQ encoder            (lines 17-26) *)
(*   write_midi_file(f, events)   sort, delta ticks, chunks  (lines 28-85) *)
(*   main()                       capture loop and shutdown (lines 89-152) *)
(*                                                                         *)
(* Bytes are integers 0..255 and byte strings are sequences of them.       *)
(* Timestamps (Python floats, in seconds) are integer multiples of         *)
(* 2^-TimeBits s; such values, their differences and their products with   *)
(* ticks_per_second are exact in binary floating point, so the model's     *)
(* rational arithmetic is the code's.                                      *)
(***************************************************************************)
EXTENDS Integers, Sequences, FiniteSets, TLC

VARIABLES
    pc,            \* control position
    vlq_n,         \* encode_var_len: the argument n
    vlq_ret,       \* encode_var_len: the returned list (<<>> before it returns)
    raised,        \* kind of the exception raised, "none" if none
    events,        \* the list object: main's recorded_events = write_midi_file's events
    snapshot,      \* contents of that list when write_midi_file was called
    division,      \* write_midi_file: division
    header,        \* write_midi_file: header
    track,         \* write_midi_file: track
    last_time,     \* write_midi_file: last_time
    idx,           \* write_midi_file: number of events the for loop has consumed
    ticks,         \* write_midi_file: ticks (the value handed to encode_var_len)
    track_chunk,   \* write_midi_file: track_chunk
    file_bytes,    \* contents of the output file (<<>>: no file was written)
    stdout,        \* the messages printed so far
    input_id,      \* main: pygame.midi.get_default_input_id()
    running,       \* main: running
    device_buf,    \* events waiting in the MIDI input device's buffer
    exit_status    \* exit status of the process (-1: it has not exited)

vars == <<pc, vlq_n, vlq_ret, raised, events, snapshot, division, header, track,
          last_time, idx, ticks, track_chunk, file_bytes, stdout, input_id,
          running, device_buf, exit_status>>

vlq_vars   == <<vlq_n, vlq_ret, raised>>
write_vars == <<division, header, track, last_time, idx, ticks, track_chunk>>
main_vars  == <<input_id, running, device_buf, exit_status>>

----------------------------------------------------------------------------
(* Bounds of the model *)

MaxN == 16400          \* largest argument tried on encode_var_len
MaxNegN == 130         \* encode_var_len is tried on -MaxNegN .. MaxN
MaxEvents == 3         \* longest session
MaxTime == 2           \* small timestamps are -1 .. MaxTime time units
TimeBits == 7          \* a time unit is 2^-TimeBits seconds

(* Program constants *)

DefaultDivision == 96
ReadMax == 10
NoDevice == -1

----------------------------------------------------------------------------
(* Input domains *)

TimeUnit == 2 ^ TimeBits           \* time units per second
HalfSecond == TimeUnit \div 2
OneSecond == TimeUnit

Times == (-1 .. MaxTime) \cup {HalfSecond, OneSecond}

NoteOn == <<144, 64, 127>>         \* 90 40 7F
NoteOff == <<128, 64, 0>>          \* 80 40 00
DataSet == {NoteOn, NoteOff}

\* what pygame.midi.Input.read yields per event: [status, data1, data2, data3]
DeviceEvents == {<<144, 64, 127, 0>>, <<128, 64, 0, 0>>}

Divisions == {48, DefaultDivision}

RawEvents == {<<t, d>> : t \in Times, d \in DataSet}

RECURSIVE SeqsUpTo(_, _)
SeqsUpTo(S, k) ==
    IF k = 0 THEN {<<>>}
    ELSE LET shorter == SeqsUpTo(S, k - 1)
         IN  shorter \cup {Append(s, e) : s \in {x \in shorter : Len(x) = k - 1}, e \in S}

----------------------------------------------------------------------------
(* encode_var_len *)

\* n & 0x7F on a Python int (two's complement of unbounded width)
And7F(n) == n % 128

\* n >> 7 on a Python int (arithmetic shift: floor division)
Shr7(n) == n \div 128

\* b | 0x80 for b in 0..127
Or80(b) == b + 128

\* mutation: the loop stops one value too late
VlqMoreOffByOne(n) == n > 128

\* the while condition of line 23
VlqMore(n) == n > 127

RECURSIVE VlqLoop(_, _)
VlqLoop(n, bytes_list) ==
    IF VlqMore(n)
    THEN LET m == Shr7(n) IN VlqLoop(m, <<Or80(And7F(m))>> \o bytes_list)
    ELSE bytes_list

encode_var_len(n) == VlqLoop(n, <<And7F(n)>>)

VlqCall ==
    /\ pc = "v_call"
    /\ vlq_ret' = encode_var_len(vlq_n)
    /\ raised' = "none"
    /\ pc' = "v_done"
    /\ UNCHANGED <<vlq_n, events, snapshot, file_bytes, stdout>>
    /\ UNCHANGED write_vars
    /\ UNCHANGED main_vars

----------------------------------------------------------------------------
(* write_midi_file *)

\* struct.pack(">I", n) and struct.pack(">H", n)
PackU32(n) == <<(n \div 16777216) % 256, (n \div 65536) % 256, (n \div 256) % 256, n % 256>>
PackU16(n) == <<(n \div 256) % 256, n % 256>>

MThd == <<77, 84, 104, 100>>       \* b'MThd'
MTrk == <<77, 84, 114, 107>>       \* b'MTrk'
EndOfTrack == <<0, 255, 47, 0>>    \* b'\x00\xFF\x2F\x00'

Timestamp(e) == e[1]
Data(e) == e[2]

\* mutation: equal keys change places (an unstable sort)
KeyLessOrEqual(e, f) == e[1] <= f[1]

\* the sort key of line 41 puts e before f
KeyLess(e, f) == Timestamp(e) < Timestamp(f)

\* list.sort is stable: an element goes behind every element whose key is not greater
RECURSIVE InsertSorted(_, _)
InsertSorted(s, e) ==
    IF s = <<>> THEN <<e>>
    ELSE IF KeyLess(e, Head(s)) THEN <<e>> \o s
    ELSE <<Head(s)>> \o InsertSorted(Tail(s), e)

RECURSIVE SortByTimestamp(_)
SortByTimestamp(s) ==
    IF s = <<>> THEN <<>>
    ELSE InsertSorted(SortByTimestamp(SubSeq(s, 1, Len(s) - 1)), s[Len(s)])

\* events.sort(key=lambda x: x[0]) sorts the caller's list in place
SortedInPlace(evs) == SortByTimestamp(evs)

TicksPerSecond(div) == div * 2

\* round(num / den) as Python 3 rounds a float: to nearest, ties to even
RoundHalfEven(num, den) ==
    LET q == num \div den
        r == num % den
    IN  IF 2 * r < den THEN q
        ELSE IF 2 * r > den THEN q + 1
        ELSE IF q % 2 = 0 THEN q ELSE q + 1

\* int(round(delta_time * ticks_per_second)), delta_time in time units
ToTicks(delta_time, tps) == RoundHalfEven(delta_time * tps, TimeUnit)

\* delta_time = timestamp - last_time
DeltaTime(timestamp, last) == timestamp - last

\* mutation: last_time is never advanced
NextLastTimeStale(timestamp, last) == last

\* line 62
NextLastTime(timestamp, last) == timestamp

\* the header chunk of lines 44-47
HeaderChunk(div) == MThd \o PackU32(6) \o PackU16(0) \o PackU16(1) \o PackU16(div)

\* mutation: the length is taken before the End-Of-Track bytes are counted
TrackLengthBeforeEnd(trk) == Len(trk) - 4

\* lines 75-79
TrackLength(trk) == Len(trk)
TrackChunk(trk) == MTrk \o PackU32(TrackLength(trk)) \o trk

\* line 41
WSort ==
    /\ pc = "w_sort"
    /\ events' = SortedInPlace(events)
    /\ pc' = "w_header"
    /\ UNCHANGED <<snapshot, file_bytes, stdout>>
    /\ UNCHANGED write_vars
    /\ UNCHANGED vlq_vars
    /\ UNCHANGED main_vars

\* lines 44-57
WHeader ==
    /\ pc = "w_header"
    /\ header' = HeaderChunk(division)
    /\ track' = <<>>
    /\ last_time' = 0
    /\ idx' = 0
    /\ pc' = "w_loop"
    /\ UNCHANGED <<events, snapshot, division, ticks, track_chunk, file_bytes, stdout>>
    /\ UNCHANGED vlq_vars
    /\ UNCHANGED main_vars

\* one iteration of the for loop, lines 59-69
WEvent ==
    /\ pc = "w_loop"
    /\ idx < Len(events)
    /\ LET e == events[idx + 1]
           t == ToTicks(DeltaTime(Timestamp(e), last_time), TicksPerSecond(division))
       IN  /\ ticks' = t
           /\ last_time' = NextLastTime(Timestamp(e), last_time)
           /\ track' = track \o encode_var_len(t) \o Data(e)
    /\ idx' = idx + 1
    /\ UNCHANGED <<pc, events, snapshot, division, header, track_chunk, file_bytes, stdout>>
    /\ UNCHANGED vlq_vars
    /\ UNCHANGED main_vars

\* line 72
WEndOfTrack ==
    /\ pc = "w_loop"
    /\ idx = Len(events)
    /\ track' = track \o EndOfTrack
    /\ pc' = "w_chunk"
    /\ UNCHANGED <<events, snapshot, division, header, last_time, idx, ticks,
                   track_chunk, file_bytes, stdout>>
    /\ UNCHANGED vlq_vars
    /\ UNCHANGED main_vars

\* lines 75-79
WChunk ==
    /\ pc = "w_chunk"
    /\ track_chunk' = TrackChunk(track)
    /\ pc' = "w_file"
    /\ UNCHANGED <<events, snapshot, division, header, track, last_time, idx, ticks,
                   file_bytes, stdout>>
    /\ UNCHANGED vlq_vars
    /\ UNCHANGED main_vars

\* lines 82-85
WFile ==
    /\ pc = "w_file"
    /\ file_bytes' = header \o track_chunk
    /\ stdout' = Append(stdout, "MIDI file written to")
    /\ pc' = "w_done"
    /\ UNCHANGED <<events, snapshot>>
    /\ UNCHANGED write_vars
    /\ UNCHANGED vlq_vars
    /\ UNCHANGED main_vars

WriteMidiFile == WSort \/ WHeader \/ WEvent \/ WEndOfTrack \/ WChunk \/ WFile

----------------------------------------------------------------------------
(* main *)

\* line 96
DeviceMissing(id) == id = NoDevice

\* lines 119-124: what one pass over pygame.event.get() leaves in running
UiKinds == {"QUIT", "ESCAPE", "OTHER_KEY", "OTHER"}
AfterUiEvents(run, evs) == IF "QUIT" \in evs \/ "ESCAPE" \in evs THEN FALSE ELSE run

\* mutation: the loop ignores the stop flag
LoopContinuesAlways(run) == TRUE

\* line 117: the while condition
LoopContinues(run) == run

\* line 127: midi_input.poll()
Poll(buf) == buf # <<>>

\* line 128: midi_input.read(10) takes at most ReadMax of the waiting events
ReadCount(buf) == IF Len(buf) < ReadMax THEN Len(buf) ELSE ReadMax

\* line 134: event_item[0][:3]
FirstThree(d) == SubSeq(d, 1, 3)

\* lines 131-136: every event of one read gets the same event_timestamp
RECURSIVE AppendAll(_, _, _)
AppendAll(rec, midi_events, event_timestamp) ==
    IF midi_events = <<>> THEN rec
    ELSE AppendAll(Append(rec, <<event_timestamp, FirstThree(Head(midi_events))>>),
                   Tail(midi_events), event_timestamp)

\* mutation: the file is written whether or not anything was recorded
ShouldWriteAlways(rec) == TRUE

\* line 149: if recorded_events
ShouldWrite(rec) == rec # <<>>

\* lines 174-175: main() has returned and the script ends
StatusOnReturn == 0

\* lines 91-100: no default input device
MNoDevice ==
    /\ pc = "m_start"
    /\ DeviceMissing(input_id)
    /\ stdout' = Append(stdout, "No MIDI input device found!")
    /\ pc' = "m_return"
    /\ UNCHANGED <<events, snapshot, file_bytes>>
    /\ UNCHANGED write_vars
    /\ UNCHANGED vlq_vars
    /\ UNCHANGED main_vars

\* lines 102-116
MOpen ==
    /\ pc = "m_start"
    /\ ~DeviceMissing(input_id)
    /\ stdout' = Append(stdout, "Recording from MIDI device id:")
    /\ events' = <<>>
    /\ running' = TRUE
    /\ pc' = "m_while"
    /\ UNCHANGED <<snapshot, file_bytes, input_id, device_buf, exit_status>>
    /\ UNCHANGED write_vars
    /\ UNCHANGED vlq_vars

\* line 117
MWhile ==
    /\ pc = "m_while"
    /\ pc' = IF LoopContinues(running) THEN "m_events" ELSE "m_cleanup"
    /\ UNCHANGED <<events, snapshot, file_bytes, stdout>>
    /\ UNCHANGED write_vars
    /\ UNCHANGED vlq_vars
    /\ UNCHANGED main_vars

\* lines 119-124
MEvents ==
    /\ pc = "m_events"
    /\ \E evs \in SUBSET UiKinds : running' = AfterUiEvents(running, evs)
    /\ pc' = "m_poll"
    /\ UNCHANGED <<events, snapshot, file_bytes, stdout, input_id, device_buf, exit_status>>
    /\ UNCHANGED write_vars
    /\ UNCHANGED vlq_vars

\* line 127
MPoll ==
    /\ pc = "m_poll"
    /\ pc' = IF Poll(device_buf) THEN "m_read" ELSE "m_frame"
    /\ UNCHANGED <<events, snapshot, file_bytes, stdout>>
    /\ UNCHANGED write_vars
    /\ UNCHANGED vlq_vars
    /\ UNCHANGED main_vars

\* lines 128-136; time.time() is the wall clock, which may be set back between calls
MRead ==
    /\ pc = "m_read"
    /\ \E event_timestamp \in Times :
         LET k == ReadCount(device_buf)
         IN  /\ events' = AppendAll(events, SubSeq(device_buf, 1, k), event_timestamp)
             /\ device_buf' = SubSeq(device_buf, k + 1, Len(device_buf))
    /\ pc' = "m_frame"
    /\ UNCHANGED <<snapshot, file_bytes, stdout, input_id, running, exit_status>>
    /\ UNCHANGED write_vars
    /\ UNCHANGED vlq_vars

\* lines 139-141
MFrame ==
    /\ pc = "m_frame"
    /\ pc' = "m_while"
    /\ UNCHANGED <<events, snapshot, file_bytes, stdout>>
    /\ UNCHANGED write_vars
    /\ UNCHANGED vlq_vars
    /\ UNCHANGED main_vars

\* lines 144-146
MCleanup ==
    /\ pc = "m_cleanup"
    /\ device_buf' = <<>>
    /\ pc' = "m_finish"
    /\ UNCHANGED <<events, snapshot, file_bytes, stdout, input_id, running, exit_status>>
    /\ UNCHANGED write_vars
    /\ UNCHANGED vlq_vars

\* lines 149-150: write_midi_file(make_output_filename(), recorded_events)
MCallWrite ==
    /\ pc = "m_finish"
    /\ ShouldWrite(events)
    /\ snapshot' = events
    /\ division' = DefaultDivision
    /\ pc' = "w_sort"
    /\ UNCHANGED <<events, file_bytes, stdout, header, track, last_time, idx, ticks,
                   track_chunk>>
    /\ UNCHANGED vlq_vars
    /\ UNCHANGED main_vars

\* lines 151-152
MNoEvents ==
    /\ pc = "m_finish"
    /\ ~ShouldWrite(events)
    /\ stdout' = Append(stdout, "No MIDI events were recorded.")
    /\ pc' = "m_return"
    /\ UNCHANGED <<events, snapshot, file_bytes>>
    /\ UNCHANGED write_vars
    /\ UNCHANGED vlq_vars
    /\ UNCHANGED main_vars

\* write_midi_file returns to main, which returns
MWritten ==
    /\ pc = "w_done"
    /\ pc' = "m_return"
    /\ UNCHANGED <<events, snapshot, file_bytes, stdout>>
    /\ UNCHANGED write_vars
    /\ UNCHANGED vlq_vars
    /\ UNCHANGED main_vars

\* lines 174-175: main() has returned, by line 100 or by running to its end
MExit ==
    /\ pc = "m_return"
    /\ exit_status' = StatusOnReturn
    /\ pc' = "exited"
    /\ UNCHANGED <<events, snapshot, file_bytes, stdout, input_id, running, device_buf>>
    /\ UNCHANGED write_vars
    /\ UNCHANGED vlq_vars

\* the device: an event arrives in the input buffer while the input is open
DeviceOpen == pc \in {"m_while", "m_events", "m_poll", "m_read", "m_frame", "m_cleanup"}

MidiArrives ==
    /\ DeviceOpen
    /\ Len(events) + Len(device_buf) < MaxEvents
    /\ \E d \in DeviceEvents : device_buf' = Append(device_buf, d)
    /\ UNCHANGED <<pc, events, snapshot, file_bytes, stdout, input_id, running, exit_status>>
    /\ UNCHANGED write_vars
    /\ UNCHANGED vlq_vars

----------------------------------------------------------------------------
(* Specifications *)

\* the locals of encode_var_len, write_midi_file and main before they are bound
VlqIdle == vlq_n = 0 /\ vlq_ret = <<>> /\ raised = "none"

WriteIdle ==
    /\ header = <<>> /\ track = <<>> /\ last_time = 0 /\ idx = 0 /\ ticks = 0
    /\ track_chunk = <<>>

MainIdle == input_id = NoDevice /\ running = TRUE /\ device_buf = <<>> /\ exit_status = -1

\* encode_var_len called on any integer of the range
InitVlq ==
    /\ pc = "v_call"
    /\ vlq_n \in -MaxNegN .. MaxN
    /\ vlq_ret = <<>> /\ raised = "none"
    /\ events = <<>> /\ snapshot = <<>> /\ division = DefaultDivision
    /\ file_bytes = <<>> /\ stdout = <<>>
    /\ WriteIdle
    /\ MainIdle

NextVlq == VlqCall

SpecVlq == InitVlq /\ [][NextVlq]_vars

\* write_midi_file called on any list of events
InitWrite ==
    /\ pc = "w_sort"
    /\ events \in SeqsUpTo(RawEvents, MaxEvents)
    /\ snapshot = events
    /\ division \in Divisions
    /\ file_bytes = <<>> /\ stdout = <<>>
    /\ VlqIdle
    /\ WriteIdle
    /\ MainIdle

NextWrite == WriteMidiFile

SpecWrite == InitWrite /\ [][NextWrite]_vars

\* a run of the script, with or without an input device
InitMain ==
    /\ pc = "m_start"
    /\ input_id \in {NoDevice, 0}
    /\ running = TRUE /\ device_buf = <<>> /\ exit_status = -1
    /\ events = <<>> /\ snapshot = <<>> /\ division = DefaultDivision
    /\ file_bytes = <<>> /\ stdout = <<>>
    /\ VlqIdle
    /\ WriteIdle

NextMain ==
    \/ MNoDevice \/ MOpen \/ MWhile \/ MEvents \/ MPoll \/ MRead \/ MFrame
    \/ MCleanup \/ MCallWrite \/ MNoEvents \/ MWritten \/ MExit
    \/ MidiArrives
    \/ WriteMidiFile

SpecMain == InitMain /\ [][NextMain]_vars

----------------------------------------------------------------------------
(* Reading a byte string back: what the properties below say about the bytes *)

\* big-endian value of a byte string
RECURSIVE BigEndian(_)
BigEndian(b) == IF b = <<>> THEN 0 ELSE BigEndian(SubSeq(b, 1, Len(b) - 1)) * 256 + b[Len(b)]

\* VLQ decoding from position k of b with the value v accumulated so far: the
\* value and the position behind the first byte without the continuation bit
\* (complete = FALSE if the bytes end first)
RECURSIVE DecodeVlqFrom(_, _, _)
DecodeVlqFrom(b, k, v) ==
    IF k > Len(b) THEN [value |-> v, next |-> k, complete |-> FALSE]
    ELSE LET w == v * 128 + (b[k] % 128)
         IN  IF b[k] >= 128 THEN DecodeVlqFrom(b, k + 1, w)
             ELSE [value |-> w, next |-> k + 1, complete |-> TRUE]

DecodeVlq(b) == DecodeVlqFrom(b, 1, 0)

\* count events read from position k of a track body: <<delta, data>> of each,
\* and the position behind the last (next = 0 if the bytes do not suffice)
RECURSIVE ParseEvents(_, _, _)
ParseEvents(b, k, count) ==
    IF count = 0 THEN [parsed |-> <<>>, next |-> k]
    ELSE LET d == DecodeVlqFrom(b, k, 0)
         IN  IF ~d.complete \/ d.next + 2 > Len(b) THEN [parsed |-> <<>>, next |-> 0]
             ELSE LET rest == ParseEvents(b, d.next + 3, count - 1)
                  IN  IF rest.next = 0 THEN rest
                      ELSE [parsed |-> <<<<d.value, SubSeq(b, d.next, d.next + 2)>>>> \o rest.parsed,
                            next |-> rest.next]

Occurrences(s, e) == Cardinality({i \in 1 .. Len(s) : s[i] = e})
SameElements(s, t) ==
    /\ Len(s) = Len(t)
    /\ \A i \in 1 .. Len(s) : Occurrences(s, s[i]) = Occurrences(t, s[i])

Ascending(s) == \A i \in 1 .. Len(s) - 1 : Timestamp(s[i]) <= Timestamp(s[i + 1])

WithTimestamp(s, t) == SelectSeq(s, LAMBDA e : Timestamp(e) = t)

\* the track chunk as it stands in the file, behind the 14-byte header chunk
FileTrackLabel == SubSeq(file_bytes, 15, 18)
FileTrackLength == SubSeq(file_bytes, 19, 22)
FileTrackBody == SubSeq(file_bytes, 23, Len(file_bytes))

----------------------------------------------------------------------------
(* Claims *)

\* C1: for n >= 0, encode_var_len(n) is a non-empty byte list, every byte but the
\* last has the continuation bit 0x80 and the last has not, and decoding it
\* consumes every byte and yields n.
VlqRoundTrip ==
    (pc = "v_done" /\ vlq_n >= 0) =>
        /\ Len(vlq_ret) >= 1
        /\ \A i \in 1 .. Len(vlq_ret) : vlq_ret[i] \in 0 .. 255
        /\ \A i \in 1 .. Len(vlq_ret) - 1 : vlq_ret[i] >= 128
        /\ vlq_ret[Len(vlq_ret)] < 128
        /\ DecodeVlq(vlq_ret) = [value |-> vlq_n, next |-> Len(vlq_ret) + 1, complete |-> TRUE]

\* C1 witness: a three-byte encoding has been returned
VlqThreeBytes == pc = "v_done" /\ vlq_n = 16384 /\ vlq_ret = <<129, 128, 0>>

\* C6: encode_var_len on a negative integer fails with InvalidArgument and
\* returns no byte sequence.
NegativeRejected ==
    (pc = "v_done" /\ vlq_n < 0) => (raised = "InvalidArgument" /\ vlq_ret = <<>>)

\* C2: the 4-byte big-endian field behind 'MTrk' is the number of bytes of the
\* track body written behind it: the deltas and 3 data bytes of every event and
\* the 4 bytes of End-Of-Track, and nothing else.
TrackLengthExact ==
    pc = "w_done" =>
        /\ FileTrackLabel = MTrk
        /\ BigEndian(FileTrackLength) = Len(FileTrackBody)
        /\ LET p == ParseEvents(FileTrackBody, 1, Len(events))
           IN  /\ p.next # 0
               /\ Len(p.parsed) = Len(events)
               /\ SubSeq(FileTrackBody, p.next, Len(FileTrackBody)) = EndOfTrack

\* C2 witness: a file with several events and a delta of more than one byte
LongTrackWritten ==
    /\ pc = "w_done"
    /\ Len(events) >= 2
    /\ Len(FileTrackBody) > 4 * Len(events) + 4

\* C3: the events are processed in ascending absolute_time order and every
\* delta_ticks handed to encode_var_len is >= 0, the first relative to time 0.
DeltasNonNegative ==
    (pc \in {"w_loop", "w_chunk", "w_file", "w_done"}) =>
        /\ Ascending(events)
        /\ idx > 0 => ticks >= 0

\* the body the claim C4 describes, for events evs in their order
RECURSIVE BodyOf(_, _, _)
BodyOf(evs, prev, div) ==
    IF evs = <<>> THEN EndOfTrack
    ELSE LET e == Head(evs)
         IN  encode_var_len(RoundHalfEven((Timestamp(e) - prev) * (div * 2), TimeUnit))
               \o Data(e) \o BodyOf(Tail(evs), Timestamp(e), div)

\* C4: the track body is, for each event in sorted order, encode_var_len(delta)
\* and the event's 3 bytes, and one End-Of-Track 00 FF 2F 00 at the very end;
\* division 96 and one event (0.5 s, 90 40 7F) give 60 90 40 7F 00 FF 2F 00 and
\* the length field 00 00 00 08.
TrackBodyLayout ==
    (pc \in {"w_chunk", "w_file", "w_done"}) =>
        /\ Ascending(events)
        /\ SameElements(events, snapshot)
        /\ track = BodyOf(events, 0, division)
        /\ pc = "w_done" => FileTrackBody = track
        /\ (snapshot = <<<<HalfSecond, NoteOn>>>> /\ division = 96 /\ pc = "w_done") =>
              /\ FileTrackBody = <<96, 144, 64, 127, 0, 255, 47, 0>>
              /\ FileTrackLength = <<0, 0, 0, 8>>

\* C4 witness: the example's file has been written
ExampleWritten ==
    /\ pc = "w_done"
    /\ snapshot = <<<<HalfSecond, NoteOn>>>>
    /\ division = 96
    /\ track = <<96, 144, 64, 127, 0, 255, 47, 0>>

\* C5: events of a session with the same absolute_time appear in the track in
\* their arrival order, each behind the first of its group with delta 0.
TiesKeepArrivalOrder ==
    pc = "w_done" =>
        LET p == ParseEvents(FileTrackBody, 1, Len(snapshot))
        IN  /\ Len(p.parsed) = Len(snapshot)
            /\ \A t \in Times :
                 LET group == WithTimestamp(snapshot, t)
                     first == Cardinality({i \in 1 .. Len(snapshot) :
                                             Timestamp(snapshot[i]) < t})
                 IN  \A g \in 1 .. Len(group) :
                        /\ first + g <= Len(p.parsed)
                        /\ p.parsed[first + g][2] = Data(group[g])
                        /\ g > 1 => p.parsed[first + g][1] = 0

\* C5 witness: a file written from a session with two different events of one
\* timestamp
TieWritten ==
    /\ pc = "w_done"
    /\ \E i \in 1 .. Len(snapshot) - 1 :
         /\ Timestamp(snapshot[i]) = Timestamp(snapshot[i + 1])
         /\ Data(snapshot[i]) # Data(snapshot[i + 1])

\* C9: after write_midi_file returns, the caller's events collection holds the
\* same elements in the same order as before the call.
CallerListUntouched == pc = "w_done" => events = snapshot

\* C7: a run whose capture ends with no recorded event never calls
\* write_midi_file, writes no file, prints the 'no events recorded' message and
\* exits with status 0.
EmptyCaptureNoFile ==
    (pc = "exited" /\ ~DeviceMissing(input_id) /\ events = <<>>) =>
        /\ file_bytes = <<>>
        /\ header = <<>> /\ track_chunk = <<>>
        /\ stdout = <<"Recording from MIDI device id:", "No MIDI events were recorded.">>
        /\ exit_status = 0

\* C7 witness: such a run has ended
EmptyCaptureExited ==
    pc = "exited" /\ ~DeviceMissing(input_id) /\ events = <<>> /\ ~running

\* C8: a run in which no input device is found ends with a non-zero exit status.
NoDeviceNonZeroExit ==
    (pc = "exited" /\ DeviceMissing(input_id)) => exit_status # 0

\* position in an iteration of the capture loop, counted from its top
Stage(p) ==
    CASE p = "m_events" -> 0
      [] p = "m_poll" -> 1
      [] p = "m_read" -> 2
      [] OTHER -> 3

\* C10: once the stop flag is set, poll() and read() are never entered again and
\* nothing is appended to the session.
NoPollAfterStop ==
    [][running = FALSE => (~MPoll /\ ~MRead /\ Len(events') = Len(events))]_vars

\* C10 as amended: once the stop flag is set the loop only finishes the
\* iteration it is in: the flag stays set, control never moves back towards the
\* top of the loop (so poll() and read() are each entered at most once more, and
\* no iteration is started), and only that one read() appends to the session.
StopEndsLoopAfterIteration ==
    [][running = FALSE =>
          /\ running' = FALSE
          /\ Stage(pc') >= Stage(pc)
          /\ (pc \in {"m_poll", "m_read"} /\ pc' # pc) => Stage(pc') > Stage(pc)
          /\ Len(events') # Len(events) => pc = "m_read"]_vars

\* C10 witness: the stop flag is set and read() is about to be entered
ReadAfterStop == pc = "m_read" /\ running = FALSE /\ device_buf # <<>>

====
